---- MODULE Spec2Model ----
(***************************************************************************)
(* Model of the crossword CSP solver of src/generate.py                    *)
(* (class CrosswordCreator): node consistency, revise, AC-3, the two       *)
(* ordering heuristics and the backtracking search.                        *)
(*                                                                         *)
(* Words are sequences of letters.  The source indexes words from 0, TLA+  *)
(* sequences from 1: an overlap is kept as the source keeps it, a pair of  *)
(* 0-based indices, and a letter is read with Char(word, index).           *)
(*                                                                         *)
(* Python iterates sets and dicts in an order the program does not         *)
(* control.  A dict keeps the order in which its keys were inserted: the   *)
(* sequence crossword.variables lists the slots in the order of the dict   *)
(* self.domains, which __init__ fills while it iterates the set            *)
(* crossword.variables.  Every set iterates in an order of its own: the    *)
(* sequence crossword.neighbors[x] lists the set crossword.neighbors(x) in *)
(* the order in which it iterates, and a set of words is visited in any    *)
(* order, drawn anew wherever the order can reach a result.                *)
(***************************************************************************)
EXTENDS Integers, Sequences, FiniteSets, TLC

VARIABLES
    crossword,    \* the puzzle: [variables, neighbors, words]
    domains,      \* self.domains: slot -> set of words
    assignment,   \* the dict handed down the backtrack recursion
    stack,        \* one frame per active backtrack call that is inside its loop
    pc,           \* position of the running operation
    result,       \* value returned by the operation that has finished
    arc_queue,    \* ac3's worklist; pop() takes the last element
    call,         \* the operation being run, its arguments and its entry store
    ac3_values    \* the values returned by the ac3 calls made so far

vars == <<crossword, domains, assignment, stack, pc, result, arc_queue, call,
          ac3_values>>

\* Python's None where a slot is expected, and where an overlap is expected
NoVariable == [i |-> -1, j |-> -1, direction |-> "none", length |-> 0]
NoOverlap == <<>>

\* what a call yields in place of a value when it raises an exception
RaisesError == [i |-> -2, j |-> -2, direction |-> "raises", length |-> 0]

----------------------------------------------------------------------------
(* Bounds of the model *)

\* largest number of words in the pool
MaxPool == 7

\* largest domain of a slot in a domain store drawn as an input
MaxDomain == 2

----------------------------------------------------------------------------
(* Generic helpers *)

Range(s) == {s[k] : k \in DOMAIN s}

\* sequences over S without repetition, of length at most n
RECURSIVE InjSeqs(_, _)
InjSeqs(S, n) ==
    IF n = 0 \/ S = {} THEN {<<>>}
    ELSE {<<>>} \cup UNION {{<<e>> \o t : t \in InjSeqs(S \ {e}, n - 1)} : e \in S}

\* all orderings of the finite set S
Perms(S) == {s \in InjSeqs(S, Cardinality(S)) : Len(s) = Cardinality(S)}

\* the element of a set of one element.  The({F(v) : v \in {e}}) is F(e)
\* with e evaluated once and named v, however often F uses it: the value of
\* a local variable of the source, computed where it is assigned
The(S) == CHOOSE r \in S : TRUE

\* the elements of sequence s that lie in set S, in the order of s: a
\* comprehension with a condition over a dict or a list
RECURSIVE Restrict(_, _)
Restrict(s, S) ==
    IF s = <<>> THEN <<>>
    ELSE IF Head(s) \in S THEN <<Head(s)>> \o Restrict(Tail(s), S)
         ELSE Restrict(Tail(s), S)

\* the finite set S listed in some order: the order of a loop over a set
\* that builds a set or a count, which come out the same in every order
RECURSIVE SetOrder(_)
SetOrder(S) ==
    IF S = {} THEN <<>>
    ELSE The({<<first>> \o SetOrder(S \ {first}) :
              first \in {CHOOSE e \in S : TRUE}})

\* word[index] with the source's 0-based index
Char(word, index) == word[index + 1]

----------------------------------------------------------------------------
(* The puzzle model the solver reads: slots, overlaps, neighbors, word pool *)

ACROSS == "across"
DOWN == "down"

\* a slot (the CSP variable): starting cell, direction and length
Variable(i, j, direction, length) ==
    [i |-> i, j |-> j, direction |-> direction, length |-> length]

\* the cells of a slot, in the order of the letters of its word
Cells(v) ==
    [k \in 1..v.length |->
        <<v.i + (IF v.direction = DOWN THEN k - 1 ELSE 0),
          v.j + (IF v.direction = ACROSS THEN k - 1 ELSE 0)>>]

IndexOf(s, e) == CHOOSE k \in DOMAIN s : s[k] = e

\* crossword.overlaps[x, y] for distinct slots: NoOverlap, or the 0-based
\* indices (ix, iy) of the cell the two slots share
overlaps(x, y) ==
    LET common == Range(Cells(x)) \cap Range(Cells(y))
    IN  IF common = {} THEN NoOverlap
        ELSE LET c == CHOOSE c \in common : TRUE
             IN  <<IndexOf(Cells(x), c) - 1, IndexOf(Cells(y), c) - 1>>

\* the slots of the set vs that cross var
NeighborsOf(vs, var) ==
    {v \in vs : v # var /\ overlaps(v, var) # NoOverlap}

\* crossword.neighbors(var): the slots that cross var
neighbors(var) == NeighborsOf(Range(crossword.variables), var)

\* the order in which a `for` loop visits the set crossword.neighbors(var)
IterNeighbors(var) == crossword.neighbors[var]

----------------------------------------------------------------------------
(* The puzzles of the model: grids ("_" blank, "#" filled) and word pools *)

\*   __            one slot
GridOne == {Variable(0, 0, ACROSS, 2)}

\*   __#___        two slots that do not cross
GridApart == {Variable(0, 0, ACROSS, 2), Variable(0, 3, ACROSS, 3)}

\*   __            two slots crossing in their first cell
\*   _#
GridCross == {Variable(0, 0, ACROSS, 2), Variable(0, 0, DOWN, 2)}

\*   ___           three slots: one across, crossed at both ends
\*   _#_
GridPath == {Variable(0, 0, ACROSS, 3), Variable(0, 0, DOWN, 2),
             Variable(0, 2, DOWN, 2)}

\*   #_#           four slots crossing in a ring of four cells
\*   #__
\*   ___
GridRing == {Variable(0, 1, DOWN, 3), Variable(1, 1, ACROSS, 2),
             Variable(1, 2, DOWN, 2), Variable(2, 0, ACROSS, 3)}

\*   ___           five slots: three across, two down, six shared cells
\*   #__
\*   ___
GridFive == {Variable(0, 0, ACROSS, 3), Variable(0, 1, DOWN, 3),
             Variable(0, 2, DOWN, 3), Variable(1, 1, ACROSS, 2),
             Variable(2, 0, ACROSS, 3)}

\* the layouts of up to three slots
SmallLayouts == {GridOne, GridApart, GridCross, GridPath}

W(a, b) == <<a, b>>
W3(a, b, c) == <<a, b, c>>

\* the vocabulary, as a list
WordList ==
    << W("c", "a"), W3("c", "b", "c"), W3("a", "c", "a"), W("a", "c"),
       W3("a", "a", "b"), W("c", "b"), W3("c", "a", "b"), W("a", "b") >>

Vocabulary == Range(WordList)

Reverse(s) == [k \in DOMAIN s |-> s[Len(s) + 1 - k]]

\* the word pools: every set of at most MaxPool words of the vocabulary
Pools == {S \in SUBSET Vocabulary : Cardinality(S) <= MaxPool}

\* the word pools of exactly MaxPool words
FullPools == {S \in Pools : Cardinality(S) = MaxPool}

\* every choice of an iteration order for each set neighbors(x), x among the
\* slots of rest, on the layout
RECURSIVE NeighborOrdersOver(_, _)
NeighborOrdersOver(layout, rest) ==
    IF rest = {} THEN {[v \in {} |-> <<>>]}
    ELSE LET x == CHOOSE v \in rest : TRUE
         IN  {[v \in DOMAIN ns \cup {x} |-> IF v = x THEN ys ELSE ns[v]] :
                 ns \in NeighborOrdersOver(layout, rest \ {x}),
                 ys \in Perms(NeighborsOf(layout, x))}

NeighborOrders(layout) == NeighborOrdersOver(layout, layout)

\* the neighbor orders that follow the slot order vs
SlotOrder(vs) ==
    [x \in Range(vs) |-> Restrict(vs, NeighborsOf(Range(vs), x))]

\* the puzzles on a layout: the slot orders given, every order of every
\* neighbor set, the pools given
PuzzlesOn(layout, orders, pools) ==
    {[variables |-> vs, neighbors |-> ns, words |-> ws] :
        vs \in orders, ns \in NeighborOrders(layout), ws \in pools}

\* the puzzles of a run of solve(): the small layouts with every pool, the
\* ring with every pool of MaxPool words, the slots in every order
Crosswords ==
    UNION {PuzzlesOn(layout, Perms(layout), Pools) : layout \in SmallLayouts}
        \cup PuzzlesOn(GridRing, Perms(GridRing), FullPools)

\* the slots of GridFive, as a list
FiveList ==
    << Variable(0, 0, ACROSS, 3), Variable(0, 2, DOWN, 3),
       Variable(2, 0, ACROSS, 3), Variable(1, 1, ACROSS, 2),
       Variable(0, 1, DOWN, 3) >>

\* a pool for GridFive
FiveWords ==
    { W3("a", "a", "a"), W3("b", "a", "a"), W("a", "a"), W3("a", "a", "b"),
      W3("a", "b", "a") }

\* GridFive: its slots in every order with the neighbor orders that follow
\* it, and its slots as listed, forwards and backwards, with every order of
\* every neighbor set
FiveCrosswords ==
    {[variables |-> vs, neighbors |-> SlotOrder(vs), words |-> FiveWords] :
        vs \in Perms(GridFive)}
        \cup PuzzlesOn(GridFive, {FiveList, Reverse(FiveList)}, {FiveWords})

\* the puzzles on which single operations are run from drawn domain stores:
\* the slots in every order and every neighbor set in every order, the
\* stores of the ring drawn from fewer words
StoreWords == Range(SubSeq(WordList, 1, 6))

RingStoreWords == { W("c", "a"), W("a", "c"), W3("c", "b", "c"), W3("a", "a", "b") }

Ac3Crosswords ==
    UNION {PuzzlesOn(layout, Perms(layout), {StoreWords}) :
              layout \in SmallLayouts}
        \cup PuzzlesOn(GridRing, Perms(GridRing), {RingStoreWords})

CallCrosswords ==
    UNION {PuzzlesOn(layout, Perms(layout), {StoreWords}) :
              layout \in {GridApart, GridCross, GridPath}}

----------------------------------------------------------------------------
(* CrosswordCreator.__init__ *)

\* every slot starts with a copy of the whole word pool
InitialDomains(cw) == [var \in Range(cw.variables) |-> cw.words]

----------------------------------------------------------------------------
(* enforce_node_consistency *)

\* a variant that also keeps the words longer than the slot
enforce_node_consistency_longer(doms) ==
    [variable \in DOMAIN doms |->
        {word \in doms[variable] : Len(word) >= variable.length}]

enforce_node_consistency(doms) ==
    [variable \in DOMAIN doms |->
        {word \in doms[variable] : Len(word) = variable.length}]

----------------------------------------------------------------------------
(* revise *)

\* a variant of the inner loop that lets a word support itself
RECURSIVE reviseInner_same(_, _, _, _)
reviseInner_same(xWord, yWords, xCross, yCross) ==
    IF yWords = <<>> THEN FALSE
    ELSE IF Char(xWord, xCross) = Char(Head(yWords), yCross)
         THEN TRUE
         ELSE reviseInner_same(xWord, Tail(yWords), xCross, yCross)

\* the inner loop over yWords: does some yWord admit xWord?
RECURSIVE reviseInner(_, _, _, _)
reviseInner(xWord, yWords, xCross, yCross) ==
    IF yWords = <<>> THEN FALSE
    ELSE LET yWord == Head(yWords)
         IN  IF xWord # yWord /\ Char(xWord, xCross) = Char(yWord, yCross)
             THEN TRUE
             ELSE reviseInner(xWord, Tail(yWords), xCross, yCross)

\* the outer loop over xWords, building newWords
RECURSIVE reviseOuter(_, _, _, _, _)
reviseOuter(xWords, yWords, xCross, yCross, newWords) ==
    IF xWords = <<>> THEN newWords
    ELSE reviseOuter(Tail(xWords), yWords, xCross, yCross,
             IF reviseInner(Head(xWords), yWords, xCross, yCross)
             THEN newWords \cup {Head(xWords)}
             ELSE newWords)

\* revise(x, y) on the domain store doms, its loops visiting domain(x) in
\* the order xWords and domain(y) in the order yWords: the store afterwards
\* and the boolean returned
reviseWords(doms, x, y, xWords, yWords) ==
    The({IF cross # NoOverlap
         THEN The({[isRevised |-> Len(xWords) > Cardinality(newWords),
                    domains |-> [doms EXCEPT ![x] = newWords]] :
                   newWords \in {reviseOuter(xWords, yWords,
                                             cross[1], cross[2], {})}})
         ELSE [isRevised |-> FALSE, domains |-> doms] :
         cross \in {overlaps(x, y)}})

\* revise(x, y): newWords is a set and isRevised compares two sizes, so the
\* orders of the two loops do not show in what it leaves
revise(doms, x, y) ==
    The({reviseWords(doms, x, y, xWords, yWords) :
         xWords \in {SetOrder(doms[x])}, yWords \in {SetOrder(doms[y])}})

----------------------------------------------------------------------------
(* ac3 *)

\* <<z, x>> for every z in zs, in order
ArcsInto(zs, x) == [k \in DOMAIN zs |-> <<zs[k], x>>]
ArcsFrom(x, ys) == [k \in DOMAIN ys |-> <<x, ys[k]>>]

RECURSIVE Concat(_)
Concat(ss) == IF ss = <<>> THEN <<>> ELSE Head(ss) \o Concat(Tail(ss))

\* the default worklist: for x in self.domains, in the order of the dict,
\* for y in neighbors(x), in the order of that set
InitialArcs ==
    The({Concat(arcsOf) :
         arcsOf \in {[k \in DOMAIN crossword.variables |->
                        ArcsFrom(crossword.variables[k],
                                 IterNeighbors(crossword.variables[k]))]}})

\* a variant of the iteration that never puts an arc back on the worklist
ac3Step_forget(doms, queue) ==
    LET arc == queue[Len(queue)]
        rest == SubSeq(queue, 1, Len(queue) - 1)
        r == revise(doms, arc[1], arc[2])
    IN  [returned |-> r.isRevised /\ Cardinality(r.domains[arc[1]]) = 0,
         domains |-> r.domains,
         queue |-> rest]

\* one iteration of the while loop on a non-empty worklist; the arcs (z, x)
\* go back on it in the order in which neighbors(x) iterates
ac3Step(doms, queue) ==
    The({The({LET x == arc[1]
                  y == arc[2]
                  rest == SubSeq(queue, 1, Len(queue) - 1)
              IN  IF r.isRevised
                  THEN IF Cardinality(r.domains[x]) = 0
                       THEN [returned |-> TRUE, domains |-> r.domains,
                             queue |-> rest]
                       ELSE [returned |-> FALSE, domains |-> r.domains,
                             queue |-> rest \o ArcsInto(
                                 Restrict(IterNeighbors(x),
                                          neighbors(x) \ {y}), x)]
                  ELSE [returned |-> FALSE, domains |-> r.domains,
                        queue |-> rest] :
              r \in {revise(doms, arc[1], arc[2])}}) :
         arc \in {queue[Len(queue)]}})

\* the while loop
RECURSIVE ac3Loop(_, _)
ac3Loop(doms, queue) ==
    IF queue = <<>> THEN [value |-> TRUE, domains |-> doms]
    ELSE The({IF s.returned THEN [value |-> FALSE, domains |-> s.domains]
              ELSE ac3Loop(s.domains, s.queue) :
              s \in {ac3Step(doms, queue)}})

\* ac3(arcs) with an explicit arc list, and ac3() with the default one:
\* the store afterwards and the boolean returned
ac3_arcs(doms, arcs) == ac3Loop(doms, arcs)
ac3(doms) == The({ac3Loop(doms, arcs) : arcs \in {InitialArcs}})

----------------------------------------------------------------------------
(* assignment_complete, consistent *)

assignment_complete(asg) ==
    Cardinality(DOMAIN asg) = Cardinality(DOMAIN domains)

\* consistent(assignment): runs ac3() on the store first, then checks the
\* assignment; the store afterwards and the boolean returned
consistent(doms, asg) ==
    [domains |-> ac3(doms).domains,
     value |->
        /\ \A key \in DOMAIN asg : key.length = Len(asg[key])
        /\ \A var1 \in DOMAIN asg : \A var2 \in DOMAIN asg :
              (var1 # var2 /\ overlaps(var1, var2) # NoOverlap) =>
                 Char(asg[var1], overlaps(var1, var2)[1])
                   = Char(asg[var2], overlaps(var1, var2)[2])]

----------------------------------------------------------------------------
(* order_domain_values *)

\* the inner loops: matches of value against the candidates of neighbors,
\* a count that is the same in every order of the candidates
RECURSIVE countValues(_, _, _)
countValues(value, index, neighbor_values) ==
    IF neighbor_values = <<>> THEN 0
    ELSE (IF Char(value, index[1]) = Char(Head(neighbor_values), index[2])
          THEN 1 ELSE 0)
         + countValues(value, index, Tail(neighbor_values))

RECURSIVE countNeighbors(_, _, _, _)
countNeighbors(doms, var, value, nbrs) ==
    IF nbrs = <<>> THEN 0
    ELSE The({countValues(value, index, neighbor_values)
              + countNeighbors(doms, var, value, Tail(nbrs)) :
              index \in {overlaps(var, Head(nbrs))},
              neighbor_values \in {SetOrder(doms[Head(nbrs)])}})

\* constrNumDict: value -> count
constrNumDict(doms, var, asg) ==
    The({[value \in doms[var] |-> countNeighbors(doms, var, value, nbrs)] :
         nbrs \in {Restrict(IterNeighbors(var),
                            {v \in neighbors(var) : v \notin DOMAIN asg})}})

\* a variant of the insertion that sorts descending
RECURSIVE InsertByKey_desc(_, _, _)
InsertByKey_desc(sortedSeq, e, key) ==
    IF sortedSeq = <<>> THEN <<e>>
    ELSE IF key[Head(sortedSeq)] >= key[e]
         THEN <<Head(sortedSeq)>> \o InsertByKey_desc(Tail(sortedSeq), e, key)
         ELSE <<e>> \o sortedSeq

\* sorted(values, key): a stable sort, ascending
RECURSIVE InsertByKey(_, _, _)
InsertByKey(sortedSeq, e, key) ==
    IF sortedSeq = <<>> THEN <<e>>
    ELSE IF key[Head(sortedSeq)] <= key[e]
         THEN <<Head(sortedSeq)>> \o InsertByKey(Tail(sortedSeq), e, key)
         ELSE <<e>> \o sortedSeq

RECURSIVE SortedByKey(_, _, _)
SortedByKey(acc, s, key) ==
    IF s = <<>> THEN acc
    ELSE The({SortedByKey(inserted, Tail(s), key) :
              inserted \in {InsertByKey(acc, Head(s), key)}})

\* order_domain_values(var, assignment), the set domain(var) iterating in
\* the order values (lines 221 and 230): words of equal count stay in it
order_domain_values(doms, var, asg, values) ==
    The({SortedByKey(<<>>, values, key) :
         key \in {constrNumDict(doms, var, asg)}})

\* line 279: value in order_domain_values(var, assignment), the same in
\* every order
in_order_domain_values(doms, var, asg, value) ==
    value \in Range(order_domain_values(doms, var, asg, SetOrder(doms[var])))

----------------------------------------------------------------------------
(* select_unassigned_variable *)

\* initial value of min_val_size
min_val_size0 == 10000

\* the loop of lines 250-259.  Line 258 asks the puzzle model for
\* neighbors(selected_key); when no slot has been selected yet (a domain of
\* exactly min_val_size0 words comes first) that is neighbors(None), in which
\* the puzzle model compares None with its slots and reads the fields of
\* None: the call raises AttributeError and the loop ends there
RECURSIVE selectLoop(_, _, _, _)
selectLoop(doms, unassigned, selected_key, min_val_size) ==
    IF unassigned = <<>> THEN selected_key
    ELSE The({The({IF min_val_size > size
                   THEN selectLoop(doms, Tail(unassigned), k, size)
                   ELSE IF min_val_size = size
                   THEN IF selected_key = NoVariable
                        THEN RaisesError
                        ELSE The({selectLoop(doms, Tail(unassigned), key,
                                             min_val_size) :
                                  key \in {IF Cardinality(neighbors(k))
                                              > Cardinality(neighbors(selected_key))
                                           THEN k ELSE selected_key}})
                   ELSE selectLoop(doms, Tail(unassigned), selected_key,
                                   min_val_size) :
                   size \in {Cardinality(doms[k])}}) :
              k \in {Head(unassigned)}})

select_unassigned_variable(doms, asg) ==
    selectLoop(doms,
               Restrict(crossword.variables,
                        {k \in DOMAIN doms : k \notin DOMAIN asg}),
               NoVariable, min_val_size0)

----------------------------------------------------------------------------
(* Pools with as many words of one length as the initial min_val_size, and *)
(* with one more                                                           *)

BigLetters == <<"a", "b", "c", "d", "e", "f", "g", "h", "i", "j", "k">>
BigSlot == Variable(0, 0, ACROSS, 4)

RECURSIVE Pow(_, _)
Pow(b, e) == IF e = 0 THEN 1 ELSE b * Pow(b, e - 1)

\* the n-th word, n from 0, of the slot's length over BigLetters
BigWord(n) ==
    [p \in 1..BigSlot.length |->
        BigLetters[((n \div Pow(Len(BigLetters), BigSlot.length - p))
                      % Len(BigLetters)) + 1]]

\* min_val_size0 + 1 distinct words of the slot's length, and min_val_size0
BigWords == {BigWord(k - 1) : k \in 1..(min_val_size0 + 1)}
EqualWords == {BigWord(k - 1) : k \in 1..min_val_size0}

\* one slot with each of the two pools
BigCrossword ==
    [variables |-> <<BigSlot>>,
     neighbors |-> [x \in {BigSlot} |-> <<>>],
     words |-> BigWords]

EqualCrossword ==
    [variables |-> <<BigSlot>>,
     neighbors |-> [x \in {BigSlot} |-> <<>>],
     words |-> EqualWords]

BigCrosswords == {BigCrossword, EqualCrossword}

\*   ____          two slots of the large pools' length crossing in their
\*   _###          first cell, in both orders, with the pool of
\*   _###          min_val_size0 words
\*   _###
GridBigCross == {BigSlot, Variable(0, 0, DOWN, BigSlot.length)}

BigCrossCrosswords ==
    PuzzlesOn(GridBigCross, Perms(GridBigCross), {EqualWords})

\*   ____          a slot of the large pools' length and, apart from it, a
\*   ####          slot for which the large pools have no word, in both
\*   ___#          orders, with each of the two pools
GridBigApart == {BigSlot, Variable(2, 0, ACROSS, 3)}

BigApartCrosswords ==
    PuzzlesOn(GridBigApart, Perms(GridBigApart), {EqualWords, BigWords})

----------------------------------------------------------------------------
(* Values returned *)

Running == [done |-> FALSE, none |-> FALSE, value |-> <<>>]
ReturnNone == [done |-> TRUE, none |-> TRUE, value |-> <<>>]
Return(v) == [done |-> TRUE, none |-> FALSE, value |-> v]

\* the dict with key var set to value, and with key var deleted
SetItem(asg, var, value) ==
    [v \in DOMAIN asg \cup {var} |-> IF v = var THEN value ELSE asg[v]]
DelItem(asg, var) == [v \in DOMAIN asg \ {var} |-> asg[v]]

EmptyAssignment == [v \in {} |-> <<>>]

Top == stack[Len(stack)]
SetTop(frame) == [stack EXCEPT ![Len(stack)] = frame]
Pop == SubSeq(stack, 1, Len(stack) - 1)

----------------------------------------------------------------------------
(* solve: enforce_node_consistency, ac3, backtrack(dict()) *)

\* line 93
EnforceNodeConsistency ==
    /\ call.op = "solve" /\ pc = "solve"
    /\ domains' = enforce_node_consistency(domains)
    /\ pc' = "ac3"
    /\ UNCHANGED <<crossword, assignment, stack, result, arc_queue, call,
                   ac3_values>>

\* line 94: the value ac3 returns is dropped
SolveAc3 ==
    /\ call.op = "solve" /\ pc = "ac3"
    /\ domains' = ac3(domains).domains
    /\ ac3_values' = Append(ac3_values, ac3(domains).value)
    /\ pc' = "backtrack"
    /\ UNCHANGED <<crossword, assignment, stack, result, arc_queue, call>>

\* lines 272-273: the assignment is complete and is returned; every caller
\* up the recursion returns it unchanged (lines 283-284)
BtComplete ==
    /\ call.op = "solve" /\ pc = "backtrack"
    /\ assignment_complete(assignment)
    /\ result' = Return(assignment)
    /\ stack' = <<>>
    /\ pc' = "done"
    /\ UNCHANGED <<crossword, domains, assignment, arc_queue, call, ac3_values>>

\* lines 275-277: pick the slot and fix the list of values the loop runs
\* over, the slot's domain iterating in any order.
\* The frame also records the assignment as it was when the call was entered
\* (entry) and the indices of the values the call has committed (commits),
\* which the code does not keep: they are there to state conditions on one
\* call
BtSelect ==
    /\ call.op = "solve" /\ pc = "backtrack"
    /\ ~assignment_complete(assignment)
    /\ select_unassigned_variable(domains, assignment)
           \notin {NoVariable, RaisesError}
    /\ \E unassigned_var \in {select_unassigned_variable(domains, assignment)} :
       \E values \in Perms(domains[unassigned_var]) :
           stack' = Append(stack,
                       [var |-> unassigned_var,
                        values |-> order_domain_values(domains, unassigned_var,
                                                       assignment, values),
                        i |-> 1,
                        entry |-> assignment,
                        commits |-> <<>>])
    /\ pc' = "loop"
    /\ UNCHANGED <<crossword, domains, assignment, result, arc_queue, call,
                   ac3_values>>

\* line 275 when select_unassigned_variable raises (line 258), and lines
\* 275-277 when it returns None: order_domain_values(None, assignment) asks
\* the puzzle model for neighbors(None) (line 214), which raises as at line
\* 258, and would go on to iterate self.domains.get(None), which is None
\* (lines 215, 221); nothing catches either, so solve() raises
BtRaise ==
    /\ call.op = "solve" /\ pc = "backtrack"
    /\ ~assignment_complete(assignment)
    /\ select_unassigned_variable(domains, assignment)
           \in {NoVariable, RaisesError}
    /\ pc' = "raised"
    /\ UNCHANGED <<crossword, domains, assignment, stack, result, arc_queue,
                   call, ac3_values>>

\* line 278: consistent(assignment) for the next value; its boolean is
\* dropped, its ac3() call prunes the store
BtConsistent ==
    /\ call.op = "solve" /\ pc = "loop"
    /\ Top.i <= Len(Top.values)
    /\ domains' = consistent(domains, assignment).domains
    /\ ac3_values' = Append(ac3_values, ac3(domains).value)
    /\ pc' = "test"
    /\ UNCHANGED <<crossword, assignment, stack, result, arc_queue, call>>

\* a variant of the commit that skips the membership test of line 279
BtCommit_untested ==
    /\ call.op = "solve" /\ pc = "test"
    /\ assignment' = SetItem(assignment, Top.var, Top.values[Top.i])
    /\ domains' = [domains EXCEPT ![Top.var] = {Top.values[Top.i]}]
    /\ stack' = SetTop([Top EXCEPT !.commits = Append(@, Top.i)])
    /\ pc' = "backtrack"
    /\ UNCHANGED <<crossword, result, arc_queue, call, ac3_values>>

\* lines 279-282: the value is still in the slot's domain: commit and recurse
BtCommit ==
    /\ call.op = "solve" /\ pc = "test"
    /\ LET value == Top.values[Top.i]
       IN  /\ in_order_domain_values(domains, Top.var, assignment, value)
           /\ assignment' = SetItem(assignment, Top.var, value)
           /\ domains' = [domains EXCEPT ![Top.var] = {value}]
    /\ stack' = SetTop([Top EXCEPT !.commits = Append(@, Top.i)])
    /\ pc' = "backtrack"
    /\ UNCHANGED <<crossword, result, arc_queue, call, ac3_values>>

\* line 279, test fails: on to the next value
BtSkip ==
    /\ call.op = "solve" /\ pc = "test"
    /\ ~in_order_domain_values(domains, Top.var, assignment,
                               Top.values[Top.i])
    /\ stack' = SetTop([Top EXCEPT !.i = @ + 1])
    /\ pc' = "loop"
    /\ UNCHANGED <<crossword, domains, assignment, result, arc_queue, call,
                   ac3_values>>

\* a variant of the undo that puts the slot's domain back to the values it
\* had when the slot was selected
BtUndo_restores ==
    /\ call.op = "solve" /\ pc = "loop"
    /\ Top.i > Len(Top.values)
    /\ Len(stack) > 1
    /\ LET caller == stack[Len(stack) - 1]
       IN  /\ assignment' = DelItem(assignment, caller.var)
           /\ domains' = [domains EXCEPT ![caller.var] = Range(caller.values)]
           /\ stack' = [Pop EXCEPT ![Len(stack) - 1] = [caller EXCEPT !.i = @ + 1]]
    /\ pc' = "loop"
    /\ UNCHANGED <<crossword, result, arc_queue, call, ac3_values>>

\* a variant of the undo that leaves the caller's entry in the assignment
BtUndo_keeps ==
    /\ call.op = "solve" /\ pc = "loop"
    /\ Top.i > Len(Top.values)
    /\ Len(stack) > 1
    /\ stack' = [Pop EXCEPT ![Len(stack) - 1] = [@ EXCEPT !.i = @ + 1]]
    /\ pc' = "loop"
    /\ UNCHANGED <<crossword, domains, assignment, result, arc_queue, call,
                   ac3_values>>

\* line 288 in a recursive call, then lines 283-285 in its caller: the call
\* returns None, the caller deletes its entry and goes on to its next value
BtUndo ==
    /\ call.op = "solve" /\ pc = "loop"
    /\ Top.i > Len(Top.values)
    /\ Len(stack) > 1
    /\ LET caller == stack[Len(stack) - 1]
       IN  /\ assignment' = DelItem(assignment, caller.var)
           /\ stack' = [Pop EXCEPT ![Len(stack) - 1] = [caller EXCEPT !.i = @ + 1]]
    /\ pc' = "loop"
    /\ UNCHANGED <<crossword, domains, result, arc_queue, call, ac3_values>>

\* line 288 in the outermost call: solve returns None
BtFail ==
    /\ call.op = "solve" /\ pc = "loop"
    /\ Top.i > Len(Top.values)
    /\ Len(stack) = 1
    /\ stack' = <<>>
    /\ result' = ReturnNone
    /\ pc' = "done"
    /\ UNCHANGED <<crossword, domains, assignment, arc_queue, call, ac3_values>>

----------------------------------------------------------------------------
(* Domain stores and assignments drawn as inputs *)

\* the pool words of the length of slot v
Fitting(cw, v) == {w \in cw.words : Len(w) = v.length}

\* every node-consistent store over the slots of vs with at most MaxDomain
\* words per slot
RECURSIVE StoresOver(_, _)
StoresOver(cw, vs) ==
    IF vs = <<>> THEN {EmptyAssignment}
    ELSE {SetItem(st, Head(vs), d) :
             st \in StoresOver(cw, Tail(vs)),
             d \in {D \in SUBSET Fitting(cw, Head(vs)) : Cardinality(D) <= MaxDomain}}

Stores(cw) == StoresOver(cw, cw.variables)

\* the assignments drawn: any set of slots as keys.  The operations run on
\* their own read the keys only, so each key gets one word of its store
\* domain, or failing that of the pool
OneOf(S) == IF S = {} THEN <<>> ELSE CHOOSE w \in S : TRUE
Assignments(cw, st) ==
    {[v \in keys |->
         IF st[v] # {} THEN OneOf(st[v]) ELSE OneOf(Fitting(cw, v))] :
        keys \in SUBSET Range(cw.variables)}

----------------------------------------------------------------------------
(* ac3() run on its own from a drawn store, one loop iteration per step *)

InitAc3 ==
    /\ crossword \in Ac3Crosswords
    /\ domains \in Stores(crossword)
    /\ assignment = EmptyAssignment
    /\ stack = <<>>
    /\ pc = "ac3"
    /\ result = Running
    /\ arc_queue = <<>>
    /\ call = [op |-> "ac3", domains0 |-> domains]
    /\ ac3_values = <<>>

\* lines 149-154: arcs is None, the worklist gets the default arcs
Ac3Start ==
    /\ call.op = "ac3" /\ pc = "ac3"
    /\ arc_queue' = InitialArcs
    /\ pc' = "ac3_loop"
    /\ UNCHANGED <<crossword, domains, assignment, stack, result, call,
                   ac3_values>>

\* lines 158-170: an iteration that does not return
Ac3Revise ==
    /\ call.op = "ac3" /\ pc = "ac3_loop"
    /\ arc_queue # <<>>
    /\ ~ac3Step(domains, arc_queue).returned
    /\ domains' = ac3Step(domains, arc_queue).domains
    /\ arc_queue' = ac3Step(domains, arc_queue).queue
    /\ UNCHANGED <<crossword, assignment, stack, pc, result, call, ac3_values>>

\* lines 158-167: the revision emptied the domain: return False
Ac3ReturnFalse ==
    /\ call.op = "ac3" /\ pc = "ac3_loop"
    /\ arc_queue # <<>>
    /\ ac3Step(domains, arc_queue).returned
    /\ domains' = ac3Step(domains, arc_queue).domains
    /\ arc_queue' = ac3Step(domains, arc_queue).queue
    /\ result' = Return(FALSE)
    /\ ac3_values' = Append(ac3_values, FALSE)
    /\ pc' = "done"
    /\ UNCHANGED <<crossword, assignment, stack, call>>

\* line 171: the worklist is empty: return True
Ac3ReturnTrue ==
    /\ call.op = "ac3" /\ pc = "ac3_loop"
    /\ arc_queue = <<>>
    /\ result' = Return(TRUE)
    /\ ac3_values' = Append(ac3_values, TRUE)
    /\ pc' = "done"
    /\ UNCHANGED <<crossword, domains, assignment, stack, arc_queue, call>>

NextAc3 == Ac3Start \/ Ac3Revise \/ Ac3ReturnFalse \/ Ac3ReturnTrue

SpecAc3 == InitAc3 /\ [][NextAc3]_vars

----------------------------------------------------------------------------
(* revise and order_domain_values run on their own from a drawn store and *)
(* assignment                                                              *)

InitCall ==
    /\ crossword \in CallCrosswords
    /\ domains \in Stores(crossword)
    /\ assignment \in Assignments(crossword, domains)
    /\ stack = <<>>
    /\ pc = "call"
    /\ result = Running
    /\ arc_queue = <<>>
    /\ call = [op |-> "call"]
    /\ ac3_values = <<>>

CallRevise ==
    /\ call.op = "call" /\ pc = "call"
    /\ \E x \in DOMAIN domains : \E y \in DOMAIN domains \ {x} :
       \E xWords \in Perms(domains[x]) : \E yWords \in Perms(domains[y]) :
       \E r \in {reviseWords(domains, x, y, xWords, yWords)} :
          /\ call' = [op |-> "revise", x |-> x, y |-> y, domains0 |-> domains]
          /\ domains' = r.domains
          /\ result' = Return(r.isRevised)
    /\ pc' = "done"
    /\ UNCHANGED <<crossword, assignment, stack, arc_queue, ac3_values>>

CallOrder ==
    /\ call.op = "call" /\ pc = "call"
    /\ \E var \in DOMAIN domains : \E values \in Perms(domains[var]) :
          /\ call' = [op |-> "order", var |-> var, values |-> values,
                      domains0 |-> domains, assignment0 |-> assignment]
          /\ result' = Return(order_domain_values(domains, var, assignment,
                                                  values))
    /\ pc' = "done"
    /\ UNCHANGED <<crossword, domains, assignment, stack, arc_queue, ac3_values>>

NextCall == CallRevise \/ CallOrder

SpecCall == InitCall /\ [][NextCall]_vars

----------------------------------------------------------------------------
(* select_unassigned_variable run on its own: from the drawn stores, and   *)
(* from the store left by enforce_node_consistency when the pool has as    *)
(* many words of the slot's length as the initial min_val_size, or more    *)

InitSelect ==
    /\ \/ /\ crossword \in CallCrosswords
          /\ domains \in Stores(crossword)
          /\ assignment \in Assignments(crossword, domains)
       \/ /\ crossword \in BigCrosswords \cup BigCrossCrosswords
          /\ domains = enforce_node_consistency(InitialDomains(crossword))
          /\ assignment \in Assignments(crossword, domains)
    /\ stack = <<>>
    /\ pc = "call"
    /\ result = Running
    /\ arc_queue = <<>>
    /\ call = [op |-> "call"]
    /\ ac3_values = <<>>

\* the call returns
CallSelect ==
    /\ call.op = "call" /\ pc = "call"
    /\ select_unassigned_variable(domains, assignment) # RaisesError
    /\ call' = [op |-> "select"]
    /\ result' = Return(select_unassigned_variable(domains, assignment))
    /\ pc' = "done"
    /\ UNCHANGED <<crossword, domains, assignment, stack, arc_queue, ac3_values>>

\* the call raises (line 258)
CallSelectRaises ==
    /\ call.op = "call" /\ pc = "call"
    /\ select_unassigned_variable(domains, assignment) = RaisesError
    /\ call' = [op |-> "select"]
    /\ pc' = "raised"
    /\ UNCHANGED <<crossword, domains, assignment, stack, result, arc_queue,
                   ac3_values>>

NextSelect == CallSelect \/ CallSelectRaises

SpecSelect == InitSelect /\ [][NextSelect]_vars

----------------------------------------------------------------------------
(* ac3(arcs) run on its own from a drawn store and a drawn arc list, and   *)
(* the same loop with the worklist taken from the front                     *)

\* one iteration of the while loop with arc_queue.popleft() in place of
\* arc_queue.pop(): the oldest arc is taken, new arcs still go to the back
ac3StepFifo(doms, queue) ==
    The({The({LET x == arc[1]
                  y == arc[2]
                  rest == Tail(queue)
              IN  IF r.isRevised
                  THEN IF Cardinality(r.domains[x]) = 0
                       THEN [returned |-> TRUE, domains |-> r.domains,
                             queue |-> rest]
                       ELSE [returned |-> FALSE, domains |-> r.domains,
                             queue |-> rest \o ArcsInto(
                                 Restrict(IterNeighbors(x),
                                          neighbors(x) \ {y}), x)]
                  ELSE [returned |-> FALSE, domains |-> r.domains,
                        queue |-> rest] :
              r \in {revise(doms, arc[1], arc[2])}}) :
         arc \in {Head(queue)}})

RECURSIVE ac3LoopFifo(_, _)
ac3LoopFifo(doms, queue) ==
    IF queue = <<>> THEN [value |-> TRUE, domains |-> doms]
    ELSE The({IF s.returned THEN [value |-> FALSE, domains |-> s.domains]
              ELSE ac3LoopFifo(s.domains, s.queue) :
              s \in {ac3StepFifo(doms, queue)}})

\* the longest arc list drawn on a puzzle that has that many arcs or fewer
MaxArcs == 4

\* the arc lists drawn: every list of different arcs of the puzzle; on a
\* puzzle with more than MaxArcs arcs, the list of all its arcs in the
\* default order and in the reverse of it
ArcLists ==
    IF Len(InitialArcs) <= MaxArcs
    THEN InjSeqs(Range(InitialArcs), MaxArcs)
    ELSE {InitialArcs, Reverse(InitialArcs)}

InitArcs ==
    /\ crossword \in Ac3Crosswords
    /\ \E arcs \in ArcLists : \E store \in Stores(crossword) :
           /\ domains = store
           /\ call = [op |-> "ac3_arcs", domains0 |-> store, arcs |-> arcs]
    /\ assignment = EmptyAssignment
    /\ stack = <<>>
    /\ pc = "call"
    /\ result = Running
    /\ arc_queue = <<>>
    /\ ac3_values = <<>>

\* lines 149-171 with arcs given: the whole call
CallAc3Arcs ==
    /\ call.op = "ac3_arcs" /\ pc = "call"
    /\ \E r \in {ac3_arcs(domains, call.arcs)} :
           /\ domains' = r.domains
           /\ result' = Return(r.value)
           /\ ac3_values' = Append(ac3_values, r.value)
    /\ pc' = "done"
    /\ UNCHANGED <<crossword, assignment, stack, arc_queue, call>>

NextArcs == CallAc3Arcs

SpecArcs == InitArcs /\ [][NextArcs]_vars

----------------------------------------------------------------------------
(* Specification of a run of solve() *)

Init ==
    /\ crossword \in Crosswords \cup FiveCrosswords \cup BigCrosswords
                       \cup BigApartCrosswords
    /\ domains = InitialDomains(crossword)
    /\ assignment = EmptyAssignment
    /\ stack = <<>>
    /\ pc = "solve"
    /\ result = Running
    /\ arc_queue = <<>>
    /\ call = [op |-> "solve"]
    /\ ac3_values = <<>>

Next ==
    \/ EnforceNodeConsistency
    \/ SolveAc3
    \/ BtComplete
    \/ BtSelect
    \/ BtRaise
    \/ BtConsistent
    \/ BtCommit
    \/ BtSkip
    \/ BtUndo
    \/ BtFail

Spec == Init /\ [][Next]_vars

\* solve() as a run that goes on while it can: the run is one call stack
\* with nothing to wait for, so a step that can be taken is taken.  The
\* puzzles: the small layouts and the ring with the pool of the first
\* MaxPool words of the vocabulary, their slots in every order and every
\* neighbor set in every order; and the puzzles with the large pools
LivePool == Range(SubSeq(WordList, 1, MaxPool))

LiveCrosswords ==
    UNION {PuzzlesOn(layout, Perms(layout), {LivePool}) :
              layout \in SmallLayouts \cup {GridRing}}
        \cup BigCrosswords

InitLive ==
    /\ crossword \in LiveCrosswords
    /\ domains = InitialDomains(crossword)
    /\ assignment = EmptyAssignment
    /\ stack = <<>>
    /\ pc = "solve"
    /\ result = Running
    /\ arc_queue = <<>>
    /\ call = [op |-> "solve"]
    /\ ac3_values = <<>>

FairSpec == InitLive /\ [][Next]_vars /\ WF_vars(Next)

----------------------------------------------------------------------------
(* What a solution of the puzzle is *)

Slots == Range(crossword.variables)
Pool == crossword.words

\* the letters of two crossing slots agree in asg
Agree(asg, s1, s2) ==
    overlaps(s1, s2) # NoOverlap =>
        Char(asg[s1], overlaps(s1, s2)[1]) = Char(asg[s2], overlaps(s1, s2)[2])

\* asg gives every slot a word of its length, and crossing slots agree
IsSolution(asg) ==
    /\ DOMAIN asg = Slots
    /\ \A s \in Slots : Len(asg[s]) = s.length
    /\ \A s1 \in Slots : \A s2 \in Slots \ {s1} : Agree(asg, s1, s2)

\* every way to extend asg over the slots of rest with pool words of the
\* slot's length that agree with the slots already filled
RECURSIVE Completions(_, _)
Completions(asg, rest) ==
    IF rest = <<>> THEN {asg}
    ELSE LET s == Head(rest)
             fits == {w \in Pool :
                        /\ Len(w) = s.length
                        /\ \A u \in DOMAIN asg :
                              Agree(SetItem(asg, s, w), s, u)}
         IN  UNION {Completions(SetItem(asg, s, w), Tail(rest)) : w \in fits}

\* all solutions of the puzzle with words of the pool
Solutions == Completions(EmptyAssignment, crossword.variables)

Returned == call.op = "solve" /\ pc = "done"

----------------------------------------------------------------------------
(* Claims about solve() *)

\* C1: whenever solve() returns an Assignment, it has one word for every
\* slot, every word has its slot's length, and crossing slots agree on the
\* shared letter.
C1_SolveSound ==
    (Returned /\ ~result.none) => IsSolution(result.value)

\* C2: for a puzzle with exactly one solution, solve() returns exactly that
\* solution (never None, never another assignment).
C2_SolveComplete ==
    (Returned /\ Cardinality(Solutions) = 1) =>
        (~result.none /\ result.value \in Solutions)

\* C3: if the puzzle has no solution, solve() returns None.
C3_SolveUnsat ==
    (Returned /\ Solutions = {}) => result.none


\* C6: across every step of a solve() run no word is added to any domain,
\* and the word written on a trial commit was in the slot's domain
\* immediately before the commit and is all that is left of it afterwards.
C6_Step ==
    /\ \A v \in DOMAIN domains : domains'[v] \subseteq domains[v]
    /\ \A v \in DOMAIN assignment' \ DOMAIN assignment :
          /\ assignment'[v] \in domains[v]
          /\ domains'[v] = {assignment'[v]}

C6_DomainsOnlyShrink == [][C6_Step]_vars

\* C6 witness: a trial commit has been made and undone in a run where
\* propagation had pruned the slot's domain below the pool
C6_Witness ==
    /\ call.op = "solve" /\ pc = "loop"
    /\ Top.var \notin DOMAIN assignment
    /\ \E k \in 1..(Top.i - 1) : domains[Top.var] = {Top.values[k]}
    /\ Len(Top.values) > 1

\* C7: enforce_node_consistency leaves in each domain exactly the words of
\* the slot's length, and from then on every word of every domain has its
\* slot's length.
C7_Step ==
    /\ pc = "solve" =>
          \A v \in DOMAIN domains :
              domains'[v] = {w \in domains[v] : Len(w) = v.length}
    /\ \A v \in DOMAIN domains : \A w \in domains'[v] : Len(w) = v.length

C7_NodeConsistent == [][C7_Step]_vars

\* C7 witness: node consistency has removed a word from a domain and left
\* another, and the search has since committed a word
C7_Witness ==
    /\ call.op = "solve" /\ pc = "backtrack"
    /\ DOMAIN assignment # {}
    /\ \E v \in Slots : \E w \in Pool : Len(w) # v.length /\ domains[v] # {}

----------------------------------------------------------------------------
(* Claims about ac3() *)

ArcsOfPuzzle ==
    {<<x, y>> \in Slots \X Slots : x # y /\ overlaps(x, y) # NoOverlap}

\* every word of domain(x) has a different word of domain(y) with the same
\* letter in the shared cell
Supported(doms, x, y) ==
    \A w \in doms[x] : \E w2 \in doms[y] :
        /\ w # w2
        /\ Char(w, overlaps(x, y)[1]) = Char(w2, overlaps(x, y)[2])

Ac3Returned == call.op = "ac3" /\ pc = "done"

\* C4: after ac3() with the default arcs returns True the store is arc
\* consistent, and revise on any arc changes no domain.
C4_ArcConsistent ==
    (Ac3Returned /\ result.value) =>
        /\ \A arc \in ArcsOfPuzzle : Supported(domains, arc[1], arc[2])
        /\ \A arc \in ArcsOfPuzzle :
              revise(domains, arc[1], arc[2]).domains = domains

\* C4 witness: on a puzzle with a slot that has two neighbors, ac3 returned
\* True after pruning the store it was given, no domain left empty
C4_Witness ==
    /\ Ac3Returned /\ result.value
    /\ \E v \in Slots : domains[v] # call.domains0[v]
    /\ \A v \in Slots : domains[v] # {}
    /\ Cardinality(ArcsOfPuzzle) >= 4

\* C5: ac3() returns True exactly when no domain is empty at return, and
\* False exactly when some domain is empty at return.
C5_Ac3Value ==
    Ac3Returned => (result.value <=> \A v \in Slots : domains[v] # {})

----------------------------------------------------------------------------
(* Claims about revise, select_unassigned_variable, order_domain_values *)

\* C8: revise(x, y) leaves in domain(x) exactly the words that have a
\* different word in domain(y) with the same letter in the shared cell,
\* changes no other domain and returns True exactly when domain(x) lost a
\* word; without an overlap it changes nothing and returns False.
C8_Revise ==
    (call.op = "revise" /\ pc = "done") =>
        LET x == call.x
            y == call.y
            old == call.domains0
        IN  IF overlaps(x, y) # NoOverlap
            THEN /\ domains[x] =
                       {wx \in old[x] : \E wy \in old[y] :
                           /\ wx # wy
                           /\ Char(wx, overlaps(x, y)[1])
                                = Char(wy, overlaps(x, y)[2])}
                 /\ \A v \in DOMAIN old \ {x} : domains[v] = old[v]
                 /\ result.value <=> (domains[x] # old[x])
            ELSE domains = old /\ ~result.value

\* C8 witness: a revise that removed some words of domain(x), not all
C8_Witness ==
    /\ call.op = "revise" /\ pc = "done"
    /\ result.value
    /\ domains[call.x] # {}

Unassigned == DOMAIN domains \ DOMAIN assignment

\* C9: for every store and assignment with a slot left unassigned,
\* select_unassigned_variable returns, and what it returns is an unassigned
\* slot of minimum domain size and, among those, of maximum neighbor count.
C9_Select ==
    (call.op = "select" /\ pc \in {"done", "raised"} /\ Unassigned # {}) =>
        /\ pc = "done"
        /\ LET sel == result.value
               smallest == {v \in Unassigned :
                               \A u \in Unassigned :
                                   Cardinality(domains[v]) <= Cardinality(domains[u])}
           IN  /\ sel \in smallest
               /\ \A u \in smallest :
                     Cardinality(neighbors(u)) <= Cardinality(neighbors(sel))

\* score(w): the pairs (n, wn), n an unassigned neighbor of var, wn in
\* domain(n), whose letter in the shared cell is w's
Score(var, w) ==
    Cardinality({p \in (neighbors(var) \ DOMAIN assignment) \X Pool :
                    /\ p[2] \in domains[p[1]]
                    /\ Char(w, overlaps(var, p[1])[1])
                         = Char(p[2], overlaps(var, p[1])[2])})

\* C10: order_domain_values returns every word of domain(var) exactly once,
\* in non-decreasing order of score, and leaves the domains and the
\* assignment as they were.
C10_Order ==
    (call.op = "order" /\ pc = "done") =>
        LET values == result.value
            var == call.var
        IN  /\ Range(values) = domains[var]
            /\ Len(values) = Cardinality(domains[var])
            /\ \A k \in 1..(Len(values) - 1) :
                  Score(var, values[k]) <= Score(var, values[k + 1])
            /\ domains = call.domains0
            /\ assignment = call.assignment0

\* C10 witness: two words of different score were ordered, the one that
\* iterates first coming out last
C10_Witness ==
    /\ call.op = "order" /\ pc = "done"
    /\ Len(result.value) = 2
    /\ Score(call.var, result.value[1]) < Score(call.var, result.value[2])
    /\ call.values[1] = result.value[2]

\* ruledOut(w): the pairs (n, wn), n an unassigned neighbor of var, wn in
\* domain(n), whose letter in the shared cell differs from w's
RuledOut(var, w) ==
    Cardinality({p \in (neighbors(var) \ DOMAIN assignment) \X Pool :
                    /\ p[2] \in domains[p[1]]
                    /\ Char(w, overlaps(var, p[1])[1])
                         # Char(p[2], overlaps(var, p[1])[2])})

\* C11: order_domain_values returns the words of domain(var) in order by the
\* number of neighbor values they rule out, the word that rules out the
\* fewest coming first.
C11_OrderRuledOut ==
    (call.op = "order" /\ pc = "done") =>
        /\ Range(result.value) = domains[call.var]
        /\ \A k \in 1..(Len(result.value) - 1) :
              RuledOut(call.var, result.value[k])
                <= RuledOut(call.var, result.value[k + 1])

----------------------------------------------------------------------------
(* Further claims about solve() *)

Raised == call.op = "solve" /\ pc = "raised"

NoCrossing == \A s \in Slots : neighbors(s) = {}

\* C12: on a puzzle in which no two slots cross and whose pool has a word of
\* each slot's length, solve() returns a complete assignment that gives each
\* slot a pool word of the slot's length.
C12_IsolatedSlots ==
    (/\ call.op = "solve"
     /\ NoCrossing
     /\ \A s \in Slots : \E w \in Pool : Len(w) = s.length) =>
        /\ ~Raised
        /\ Returned =>
              /\ ~result.none
              /\ DOMAIN result.value = Slots
              /\ \A s \in Slots :
                    result.value[s] \in Pool /\ Len(result.value[s]) = s.length

\* the slots for which the pool has no word of the right length
Wordless == {s \in Slots : \A w \in Pool : Len(w) # s.length}

\* C13: when the pool has no word of some slot's length, that slot's domain
\* is empty from enforce_node_consistency on and solve() returns None (it
\* does not raise, and what it returns is None), whatever the ac3() call of
\* solve returns and whatever the domains of the other slots are.
C13_WordlessSlot ==
    (call.op = "solve" /\ Wordless # {}) =>
        /\ pc # "solve" => \A s \in Wordless : domains[s] = {}
        /\ ~Raised
        /\ Returned => result.none

\* C14: in an assignment returned by solve() no two crossing slots have the
\* same word.
C14_CrossingDistinct ==
    (Returned /\ ~result.none) =>
        \A s1 \in Slots : \A s2 \in Slots \ {s1} :
            overlaps(s1, s2) # NoOverlap => result.value[s1] # result.value[s2]

\* the call of backtrack on top of the stack is about to return None
ReturningNone ==
    call.op = "solve" /\ pc = "loop" /\ Top.i > Len(Top.values)

\* C15: a call of backtrack that returns None leaves the assignment as it
\* was when the call was entered, and when solve() returns None the
\* assignment is empty.
C15_AssignmentRestored ==
    /\ ReturningNone => assignment = Top.entry
    /\ (Returned /\ result.none) => assignment = EmptyAssignment

\* C15 witness: a recursive call that committed a word of its slot, had the
\* commit undone, and is about to return None
C15_Witness ==
    /\ ReturningNone
    /\ Len(stack) >= 2
    /\ assignment = Top.entry
    /\ \E k \in DOMAIN Top.values : domains[Top.var] = {Top.values[k]}

\* a recursive call is about to return None to a caller that will undo its
\* commit (lines 283-285)
Undoing == ReturningNone /\ Len(stack) > 1

\* the frame whose commit is undone, and the word it committed
Undone == stack[Len(stack) - 1]
UndoneWord == Undone.values[Undone.i]

\* the step that undoes the commit: the entry is deleted
UndoStep == Undoing /\ Undone.var \notin DOMAIN assignment'

\* C16: when the commit of word w to slot s is undone, domain(s) is the
\* singleton {w}.
C16_SingletonAtUndo ==
    [][UndoStep => domains'[Undone.var] = {UndoneWord}]_vars

\* C16 as amended: when the commit of word w to slot s is undone, domain(s)
\* holds no word other than w: it is {w}, or empty when a propagation run
\* inside the recursion removed w; it is not restored.
C16_NoWiderAtUndo ==
    [][UndoStep => domains'[Undone.var] \subseteq {UndoneWord}]_vars

\* C16 witness: a commit is undone with the slot's domain still the
\* singleton, the slot having had other candidates when it was selected
C16_Witness ==
    /\ Undoing
    /\ domains[Undone.var] = {UndoneWord}
    /\ Len(Undone.values) > 1

\* C17: solve() terminates, returning a complete assignment or None.
C17_SolveReturns ==
    <>(Returned /\ (result.none \/ DOMAIN result.value = Slots))

----------------------------------------------------------------------------
(* Claims about the order of the worklist *)

Ac3ArcsReturned == call.op = "ac3_arcs" /\ pc = "done"

\* the call of the state, run with first-in-first-out popping
FifoRun == ac3LoopFifo(call.domains0, call.arcs)

\* last-in-first-out and first-in-first-out return the same boolean and,
\* when that is True, leave the same domains
SameOutcome(fifo) ==
    /\ result.value = fifo.value
    /\ result.value => domains = fifo.domains

\* C18: for every starting store and every initial arc list, ac3 with
\* last-in-first-out popping and ac3 with first-in-first-out popping return
\* the same boolean and, when they return True, leave identical domains.
C18_WorklistOrder == Ac3ArcsReturned => SameOutcome(FifoRun)

CompleteList == Range(InitialArcs) \subseteq Range(call.arcs)

\* C18 as amended: for every starting store and every initial arc list that
\* holds every arc of the puzzle (as the default list does), the two
\* popping orders return the same boolean and, when they return True, leave
\* identical domains.
C18_CompleteListOrder ==
    (Ac3ArcsReturned /\ CompleteList) => SameOutcome(FifoRun)

\* C18 witness: on a puzzle with a slot that has two neighbors, a call with
\* a list of all arcs that is not the default list returned True after
\* pruning two domains, and the first-in-first-out run agrees
C18_Witness ==
    /\ Ac3ArcsReturned /\ CompleteList
    /\ Len(InitialArcs) >= 4
    /\ call.arcs # InitialArcs
    /\ result.value
    /\ Cardinality({v \in DOMAIN domains : domains[v] # call.domains0[v]}) >= 2
    /\ SameOutcome(FifoRun)

----------------------------------------------------------------------------
(* Claims about one invocation of backtrack *)

\* the invocation on top of the stack is back in its loop after a commit of
\* its own was undone, and is about to test another candidate
Retesting ==
    /\ call.op = "solve" /\ pc = "test"
    /\ Top.commits # <<>>

\* C19: one invocation of backtrack commits at most one candidate of its
\* slot; after its commit was undone, every remaining candidate fails the
\* membership test of line 279 and is skipped.
C19_OneCommit ==
    call.op = "solve" =>
        /\ \A k \in DOMAIN stack : Len(stack[k].commits) <= 1
        /\ Retesting =>
              ~in_order_domain_values(domains, Top.var, assignment,
                                      Top.values[Top.i])

\* C19 witness: an invocation whose commit was undone is testing a later
\* candidate, which is no longer in the slot's domain, two levels down in
\* the recursion
C19_Witness ==
    /\ Retesting
    /\ Len(stack) >= 2
    /\ Top.commits[1] < Top.i
    /\ Top.values[Top.i] \notin domains[Top.var]

====
